---------------------------- MODULE Spec2Model ----------------------------
(***************************************************************************)
(* Model of make_status.py: the status-dashboard snapshot generator.       *)
(*                                                                         *)
(* The coordinating (main) thread flattens the configuration, submits one  *)
(* process_package task per descriptor to a ThreadPoolExecutor, collects   *)
(* the futures as they complete, and writes generated.yml.  Each task      *)
(* enriches its descriptor with four fetches from the GitHub API.          *)
(*                                                                         *)
(* Python values are modelled as one-field records, so that values of      *)
(* different Python types can be compared: None is [none |-> TRUE], a      *)
(* string is [str |-> tokens] (a sequence of tokens, so that split, lower  *)
(* and the date conversion act on its parts), a dict is [dict |-> f], a    *)
(* list is [list |-> seq], a bool [bool |-> b], an int [int |-> n].        *)
(***************************************************************************)
EXTENDS Integers, Sequences, FiniteSets, TLC

VARIABLES
    remote,        \* the GitHub API state: (owner, name) -> canned responses
    session,       \* the module-level requests.Session (its headers)
    config,        \* the loaded dashboard.yml: sequence of sections
    input,         \* the descriptors as loaded (never changes)
    package,       \* heap of descriptor dicts, mutated in place by the tasks
    all_packages,  \* the flattened list of descriptor references
    futures,       \* the submitted tasks: future state + process_package frame
    calls,         \* per task: the requests it has sent, in order
    writes,        \* per descriptor: the assignments made to it (task, key), in order
    yielded,       \* the futures as_completed has yielded so far, in order
    main,          \* position of the coordinating thread
    raised,        \* the exception propagating on the coordinating thread
    generated      \* generated.yml: the documents written to it, in order

vars == <<remote, session, config, input, package, all_packages, futures,
          calls, writes, yielded, main, raised, generated>>

---------------------------------------------------------------------------
(* Bounds of the model *)

\* most descriptors in a dispatched configuration
MaxPkgs == 2
\* most sections in a configuration
MaxSections == 2
\* most workflow pages the remote holds for a repository
MaxPages == 2
\* most descriptors beyond the size of the pool
MaxWaiting == 1

(* Program constants *)

\* ThreadPoolExecutor(max_workers=4)
max_workers == 4
\* params={"per_page": 100, ...}
per_page == 100

---------------------------------------------------------------------------
(* Python values *)

None == [none |-> TRUE]
S(tokens) == [str |-> tokens]
B(b) == [bool |-> b]
I(n) == [int |-> n]
D(f) == [dict |-> f]
L(q) == [list |-> q]
EmptyDict == D(<<>>)

IsStr(v) == "str" \in DOMAIN v
IsDict(v) == "dict" \in DOMAIN v
IsList(v) == "list" \in DOMAIN v

\* Python truthiness (bool(v)): the falsy values are None, False, 0, "", {} and []
Falsy == {None, B(FALSE), I(0), S(<<>>), D(<<>>), L(<<>>)}
Truthy(v) == v \notin Falsy

\* a or b
Or(a, b) == IF Truthy(a) THEN a ELSE b

\* d.get(k)  and  d.get(k, default), d a dict: the value d has at k, and the
\* default where d has no key k
GetDefault(d, k, default) == (d.dict @@ (k :> default))[k]
Get(d, k) == GetDefault(d, k, None)

\* d[k] = v on the function f of a dict
Put(f, k, v) == [x \in DOMAIN f \cup {k} |-> IF x = k THEN v ELSE f[x]]

\* outcome of a call: a returned value or a raised exception
Ret(v) == [ret |-> v]
Raise(e) == [raise |-> e]
Raised(o) == "raise" \in DOMAIN o

---------------------------------------------------------------------------
(* Strings *)

\* str.split(sep) on a token sequence: the parts between the separators
RECURSIVE SplitFrom(_, _, _, _)
SplitFrom(toks, sep, i, cur) ==
    IF i > Len(toks) THEN <<S(cur)>>
    ELSE IF toks[i] = sep THEN <<S(cur)>> \o SplitFrom(toks, sep, i + 1, <<>>)
    ELSE SplitFrom(toks, sep, i + 1, Append(cur, toks[i]))

Split(s, sep) == SplitFrom(s.str, sep, 1, <<>>)

\* str.lower(): the state tokens the API may report, lower-cased
LowerTok(t) ==
    CASE t = "DISABLED_INACTIVITY" -> "disabled_inactivity"
      [] t = "Disabled_Inactivity" -> "disabled_inactivity"
      [] t = "ACTIVE" -> "active"
      [] OTHER -> t

Lower(s) == S([i \in DOMAIN s.str |-> LowerTok(s.str[i])])

\* str(n) for an int
Str(v) == IF IsStr(v) THEN v ELSE S(<<ToString(v.int)>>)

\* format_date: datetime.fromisoformat(ts.replace("Z", "+00:00")).date().isoformat()
\* An ISO timestamp is <<date>> or <<date, "T", time>> or <<date, "T", time, zone>>
\* with zone "Z" or an explicit offset; anything else does not parse.
Dates == {"2024-05-01", "2024-06-30", "2023-01-15"}
Times == {"10:00:00", "23:59:59"}
Zones == {"Z", "+00:00", "+02:00"}

ReplaceZ(toks) == [i \in DOMAIN toks |-> IF toks[i] = "Z" THEN "+00:00" ELSE toks[i]]

format_date(iso_timestamp) ==
    LET t == ReplaceZ(iso_timestamp.str)
        parses ==
            /\ Len(t) \in {1, 3, 4}
            /\ t[1] \in Dates
            /\ Len(t) >= 3 => (t[2] = "T" /\ t[3] \in Times)
            /\ Len(t) = 4 => t[4] \in (Zones \ {"Z"})
    IN IF parses THEN Ret(S(<<t[1]>>)) ELSE Raise("ValueError")

---------------------------------------------------------------------------
(* The remote: GitHub API responses *)

Ts(date, time) == S(<<date, "T", time, "Z">>)
Txt(word) == S(<<word>>)
NotJson == [text |-> <<"<html>">>]
Message(word) == D([message |-> Txt(word)])

\* one entry of the workflow listing
Workflow(id, name, path, state) ==
    D([id |-> id, name |-> name, path |-> path, state |-> state])

ActiveWorkflow(i) == Workflow(I(i), Txt("CI"), Txt(".github/workflows/ci.yml"), Txt("active"))

\* the entries of a short page that exercises every label rule
MixedWorkflows ==
    << ActiveWorkflow(1),
       Workflow(I(2), Txt("Nightly"), Txt(".github/workflows/nightly.yml"),
                Txt("disabled_inactivity")),
       Workflow(I(3), S(<<>>), Txt(".github/workflows/docs.yml"),
                Txt("Disabled_Inactivity")),
       Workflow(I(4), None, S(<<>>), Txt("DISABLED_INACTIVITY")),
       D([state |-> Txt("disabled_inactivity")]),
       Workflow(I(6), Txt("Manual"), Txt(".github/workflows/manual.yml"),
                Txt("disabled_manually")) >>

\* a full page (per_page entries), with or without a disabled workflow in it
FullPage(match) ==
    [i \in 1..per_page |->
        IF match /\ i = per_page
        THEN Workflow(I(i), Txt("Stale"), Txt(".github/workflows/stale.yml"),
                      Txt("disabled_inactivity"))
        ELSE ActiveWorkflow(i)]

WorkflowListing(entries) ==
    [status |-> 200, body |-> D([total_count |-> I(Len(entries)), workflows |-> L(entries)])]

Commit(author, rollup) ==
    D([oid |-> Txt("9f3c2ab"),
       commitUrl |-> Txt("https://github.com/commit/9f3c2ab"),
       committedDate |-> Ts("2024-05-01", "23:59:59"),
       author |-> author,
       statusCheckRollup |-> rollup])

GraphQL(repository) == [status |-> 200, body |-> D([data |-> D([repository |-> repository])])]

Release(published_at, created_at) ==
    D([html_url |-> Txt("https://github.com/releases/v1.2"),
       tag_name |-> Txt("v1.2"),
       published_at |-> published_at,
       created_at |-> created_at])

\* the canned responses, by name
CannedResponse(name) ==
    CASE name = "repo_200" ->
            [status |-> 200,
             body |-> D([created_at |-> Ts("2023-01-15", "10:00:00"),
                         updated_at |-> Ts("2024-06-30", "10:00:00"),
                         open_issues_count |-> I(3),
                         stargazers_count |-> I(7),
                         description |-> None,
                         topics |-> L(<<Txt("imaging")>>),
                         size |-> I(120),
                         full_name |-> Txt("full")])]
      [] name = "repo_404" -> [status |-> 404, body |-> Message("Not Found")]
      [] name = "repo_500_json" -> [status |-> 500, body |-> Message("Server Error")]
      [] name = "repo_502_html" -> [status |-> 502, body |-> NotJson]
      [] name = "commit_ok" ->
            GraphQL(D([defaultBranchRef |-> D([target |->
                Commit(D([user |-> D([login |-> Txt("jdoe")]), name |-> Txt("Jane Doe")]),
                       D([state |-> Txt("SUCCESS")]))])]))
      [] name = "commit_unlinked" ->
            GraphQL(D([defaultBranchRef |-> D([target |->
                Commit(D([user |-> None, name |-> Txt("Jane Doe")]), None)])]))
      [] name = "commit_empty_repo" -> GraphQL(D([defaultBranchRef |-> None]))
      [] name = "commit_no_repo" -> GraphQL(None)
      [] name = "commit_502_html" -> [status |-> 502, body |-> NotJson]
      [] name = "rel_200_one" ->
            [status |-> 200,
             body |-> L(<<Release(Ts("2024-06-30", "10:00:00"), Ts("2024-05-01", "10:00:00"))>>)]
      [] name = "rel_200_draft" ->
            [status |-> 200, body |-> L(<<Release(None, Ts("2024-05-01", "10:00:00"))>>)]
      [] name = "rel_200_empty" -> [status |-> 200, body |-> L(<<>>)]
      [] name = "rel_404" -> [status |-> 404, body |-> Message("Not Found")]
      [] name = "rel_500_json" -> [status |-> 500, body |-> Message("Server Error")]
      [] name = "rel_502_html" -> [status |-> 502, body |-> NotJson]
      [] name = "wf_403" -> [status |-> 403, body |-> Message("Forbidden")]
      [] name = "wf_404" -> [status |-> 404, body |-> Message("Not Found")]
      [] name = "wf_500_json" -> [status |-> 500, body |-> Message("Server Error")]
      [] name = "wf_short_match" -> WorkflowListing(MixedWorkflows)
      [] name = "wf_short_none" -> WorkflowListing(<<ActiveWorkflow(1), ActiveWorkflow(2)>>)
      [] name = "wf_full_match" -> WorkflowListing(FullPage(TRUE))
      [] name = "wf_full_none" -> WorkflowListing(FullPage(FALSE))
      [] name = "wf_short_unlabelled" ->
            WorkflowListing(<<ActiveWorkflow(1),
                              D([state |-> Txt("disabled_inactivity")]),
                              Workflow(I(0), None, S(<<>>), Txt("disabled_inactivity"))>>)
      [] name = "wf_empty" -> WorkflowListing(<<>>)

ResponseNames ==
    {"repo_200", "repo_404", "repo_500_json", "repo_502_html",
     "commit_ok", "commit_unlinked", "commit_empty_repo", "commit_no_repo", "commit_502_html",
     "rel_200_one", "rel_200_draft", "rel_200_empty", "rel_404", "rel_500_json",
     "rel_502_html",
     "wf_403", "wf_404", "wf_500_json", "wf_short_match", "wf_short_none",
     "wf_short_unlabelled", "wf_full_match", "wf_full_none", "wf_empty"}

Responses == [name \in ResponseNames |-> CannedResponse(name)]
Response(name) == Responses[name]

RepoInfoResponses == {"repo_200", "repo_404", "repo_500_json", "repo_502_html"}
CommitResponses == {"commit_ok", "commit_unlinked", "commit_empty_repo", "commit_502_html"}
ReleaseResponses == {"rel_200_one", "rel_200_draft", "rel_200_empty", "rel_404",
                     "rel_500_json", "rel_502_html"}
FullPages == {"wf_full_match", "wf_full_none"}
LastPages == {"wf_403", "wf_500_json", "wf_short_match", "wf_short_none",
              "wf_short_unlabelled"}

\* what the API holds for a repository it does not know
NoSite == [repo_info |-> "repo_404", commit |-> "commit_no_repo",
           releases |-> "rel_404", workflows |-> <<"wf_404">>]

Known(owner, repo) == <<owner.str, repo.str>> \in DOMAIN remote
Site(owner, repo) == IF Known(owner, repo) THEN remote[<<owner.str, repo.str>>] ELSE NoSite

\* GET https://api.github.com/repos/{owner}/{repo}
GetRepo(owner, repo) == Response(Site(owner, repo).repo_info)
\* POST https://api.github.com/graphql
PostGraphQL(owner, repo) == Response(Site(owner, repo).commit)
\* GET https://api.github.com/repos/{owner}/{repo}/releases
GetReleases(owner, repo) == Response(Site(owner, repo).releases)
\* GET https://api.github.com/repos/{owner}/{repo}/actions/workflows?page=N
\* (a page past the end of the listing is an empty page)
GetWorkflows(owner, repo, page) ==
    LET pages == Site(owner, repo).workflows
    IN  Response(IF page <= Len(pages) THEN pages[page]
                 ELSE IF Known(owner, repo) THEN "wf_empty" ELSE "wf_404")

\* requests.Response.ok and .json()
Ok(resp) == resp.status < 400
Json(resp) == IF "text" \in DOMAIN resp.body THEN Raise("JSONDecodeError") ELSE Ret(resp.body)

---------------------------------------------------------------------------
(* The four fetches (lines 66-169) *)

\* format_date(x) if x else None
DateOrNone(x) == IF Truthy(x) THEN format_date(x) ELSE Ret(None)

fetch_last_commit_info(owner, repo) ==
    LET resp == PostGraphQL(owner, repo)
        json == Json(resp)
        repo_data == Or(Get(Or(Get(json.ret, "data"), EmptyDict), "repository"), EmptyDict)
        branch_ref == Or(Get(repo_data, "defaultBranchRef"), EmptyDict)
        commit == Or(Get(branch_ref, "target"), EmptyDict)
        author_block == Or(Get(commit, "author"), EmptyDict)
        author == Or(Get(Or(Get(author_block, "user"), EmptyDict), "login"),
                     Get(author_block, "name"))
        committed_date == Get(commit, "committedDate")
        status_rollup == Get(Or(Get(commit, "statusCheckRollup"), EmptyDict), "state")
        date == DateOrNone(committed_date)
    IN  IF ~Ok(resp) THEN Ret(None)
        ELSE IF Raised(json) THEN json
        ELSE IF ~IsDict(json.ret) THEN Raise("AttributeError")
        ELSE IF ~Truthy(commit) THEN Ret(None)
        ELSE IF Raised(date) THEN date
        ELSE Ret(D([url |-> Get(commit, "commitUrl"),
                    date |-> date.ret,
                    author |-> author,
                    status |-> status_rollup,
                    sha |-> Get(commit, "oid")]))

fetch_repo_info(owner, repo) ==
    LET resp == GetRepo(owner, repo)
        json == Json(resp)
        info == json.ret
    IN  IF resp.status = 404 THEN Ret(None)
        ELSE IF Raised(json) THEN json
        ELSE IF ~IsDict(info) THEN Raise("AttributeError")
        ELSE Ret(D([created_at |-> Get(info, "created_at"),
                    updated_at |-> Get(info, "updated_at"),
                    open_issues |-> Get(info, "open_issues_count"),
                    stargazers_count |-> Get(info, "stargazers_count"),
                    description |-> Get(info, "description"),
                    topics |-> GetDefault(info, "topics", L(<<>>)),
                    size |-> Get(info, "size")]))

fetch_last_release_info(owner, repo) ==
    LET releases_resp == GetReleases(owner, repo)
        json == Json(releases_resp)
        releases == json.ret
        last_release == releases.list[1]
        published_at == Or(Get(last_release, "published_at"), Get(last_release, "created_at"))
        date == DateOrNone(published_at)
    IN  IF releases_resp.status = 404 THEN Ret(None)
        ELSE IF Raised(json) THEN json
        ELSE IF ~Truthy(releases) THEN Ret(None)
        ELSE IF IsDict(releases) THEN Raise("KeyError")      \* releases[0] on a dict
        ELSE IF ~IsList(releases) THEN Raise("TypeError")
        ELSE IF ~IsDict(last_release) THEN Raise("AttributeError")
        ELSE IF Raised(date) THEN date
        ELSE Ret(D([url |-> Get(last_release, "html_url"),
                    tag_name |-> Get(last_release, "tag_name"),
                    date |-> date.ret]))

\* Label with the path preferred to the name
LabelPathFirst(workflow) ==
    Or(Or(Get(workflow, "path"), Get(workflow, "name")),
       Str(Or(Get(workflow, "id"), S(<<>>))))

\* lines 161-163: the label of a workflow
Label(workflow) ==
    Or(Or(Get(workflow, "name"), Get(workflow, "path")),
       Str(Or(Get(workflow, "id"), S(<<>>))))

\* line 160 and line 164: the workflow is appended
Appended(workflow) ==
    /\ Lower(Or(Get(workflow, "state"), S(<<>>))) = Txt("disabled_inactivity")
    /\ Truthy(Label(workflow))

\* the list the tasks have collected into, were `disabled` one list shared by every
\* call (a mutable default argument, a module-level list)
SharedDisabled ==
    LET holders == {j \in DOMAIN futures : futures[j].disabled # <<>>}
    IN  IF holders = {} THEN <<>>
        ELSE futures[CHOOSE j \in holders : \A k \in holders : j <= k].disabled

\* ScanWorkflows appending to the shared list instead of the call's own
ScanWorkflowsSharedList(workflows, disabled) ==
    LET appended == SelectSeq(workflows, Appended)
    IN  SharedDisabled \o [n \in DOMAIN appended |-> Label(appended[n])]

\* ScanWorkflows putting the labels of a page before those already collected
ScanWorkflowsPrepend(workflows, disabled) ==
    LET appended == SelectSeq(workflows, Appended)
    IN  [n \in DOMAIN appended |-> Label(appended[n])] \o disabled

\* lines 159-165: the for loop over the workflows of one page: the labels of the
\* workflows it appends, in the order of the page, after those already collected
ScanWorkflows(workflows, disabled) ==
    LET appended == SelectSeq(workflows, Appended)
    IN  disabled \o [n \in DOMAIN appended |-> Label(appended[n])]

\* WorkflowsIteration without lines 166-167: a short page does not end the loop
WorkflowsIterationNoShortBreak(owner, repo, page, disabled) ==
    LET resp == GetWorkflows(owner, repo, page)
        json == Json(resp)
        data == Or(json.ret, EmptyDict)
        workflows == Or(Get(data, "workflows"), L(<<>>))
        scanned == ScanWorkflows(workflows.list, disabled)
    IN  IF resp.status \in {403, 404} THEN Ret([break |-> TRUE, page |-> page, disabled |-> disabled])
        ELSE IF ~Ok(resp) THEN Ret([break |-> TRUE, page |-> page, disabled |-> disabled])
        ELSE IF Raised(json) THEN json
        ELSE IF ~IsDict(data) THEN Raise("AttributeError")
        ELSE Ret([break |-> FALSE, page |-> page + 1, disabled |-> scanned])

\* WorkflowsIteration giving up what it has collected when a request fails
WorkflowsIterationDiscardOnFailure(owner, repo, page, disabled) ==
    LET resp == GetWorkflows(owner, repo, page)
        json == Json(resp)
        data == Or(json.ret, EmptyDict)
        workflows == Or(Get(data, "workflows"), L(<<>>))
        scanned == ScanWorkflows(workflows.list, disabled)
    IN  IF resp.status \in {403, 404} THEN Ret([break |-> TRUE, page |-> page, disabled |-> <<>>])
        ELSE IF ~Ok(resp) THEN Ret([break |-> TRUE, page |-> page, disabled |-> <<>>])
        ELSE IF Raised(json) THEN json
        ELSE IF ~IsDict(data) THEN Raise("AttributeError")
        ELSE IF Len(workflows.list) < per_page
             THEN Ret([break |-> TRUE, page |-> page, disabled |-> scanned])
        ELSE Ret([break |-> FALSE, page |-> page + 1, disabled |-> scanned])

\* lines 149-168: one iteration of the while loop of fetch_disabled_inactive_workflows:
\* the request of page `page` and what follows it up to the next request or the break.
\* Returns [break, page, disabled] or raises.
WorkflowsIteration(owner, repo, page, disabled) ==
    LET resp == GetWorkflows(owner, repo, page)
        json == Json(resp)
        data == Or(json.ret, EmptyDict)
        workflows == Or(Get(data, "workflows"), L(<<>>))
        scanned == ScanWorkflows(workflows.list, disabled)
    IN  IF resp.status \in {403, 404} THEN Ret([break |-> TRUE, page |-> page, disabled |-> disabled])
        ELSE IF ~Ok(resp) THEN Ret([break |-> TRUE, page |-> page, disabled |-> disabled])
        ELSE IF Raised(json) THEN json
        ELSE IF ~IsDict(data) THEN Raise("AttributeError")
        ELSE IF Len(workflows.list) < per_page
             THEN Ret([break |-> TRUE, page |-> page, disabled |-> scanned])
        ELSE Ret([break |-> FALSE, page |-> page + 1, disabled |-> scanned])

---------------------------------------------------------------------------
(* Configurations and remotes the runs start from *)

\* session.headers after lines 21-32, with or without GITHUB_TOKEN
BaseHeaders == [Accept |-> Txt("application/vnd.github+json"),
                UserAgent |-> Txt("ome-status-dashboard")]
Headers(token) ==
    IF Truthy(token) THEN Put(BaseHeaders, "Authorization", S(<<"Bearer ", token.str[1]>>))
    ELSE BaseHeaders

Repo(owner, name) == S(<<owner, "/", name>>)

\* fields a descriptor of dashboard.yml may carry besides repo
ExtraFields ==
    { <<>>,
      [pypi |-> Txt("omero-py")],
      [name |-> Txt("OMERO core"), pypi |-> Txt("omero-py")],
      [error |-> B(FALSE), last_release |-> None, user |-> Txt("someone")] }

Descriptor(repo, extra) == Put(extra, "repo", repo)

\* the workflow listings a repository may have: full pages, then at most one other page
RECURSIVE FullPrefixes(_)
FullPrefixes(n) ==
    IF n = 0 THEN {<<>>}
    ELSE FullPrefixes(n - 1) \cup
         {Append(q, f) : q \in {r \in FullPrefixes(n - 1) : Len(r) = n - 1}, f \in FullPages}

Listings ==
    FullPrefixes(MaxPages) \cup
    {Append(q, l) : q \in FullPrefixes(MaxPages - 1), l \in LastPages}

Sites == [repo_info : RepoInfoResponses,
          commit : CommitResponses \ {"commit_unlinked"},
          releases : ReleaseResponses \ {"rel_200_draft"},
          workflows : Listings]

\* a remote with three repositories; ghost/repo is not among them
World ==
    ( <<<<"ome">>, <<"a">>>> :>
          [repo_info |-> "repo_200", commit |-> "commit_unlinked",
           releases |-> "rel_200_draft", workflows |-> <<"wf_short_match">>] ) @@
    ( <<<<"ome">>, <<"b">>>> :>
          [repo_info |-> "repo_500_json", commit |-> "commit_502_html",
           releases |-> "rel_200_empty", workflows |-> <<"wf_403">>] ) @@
    ( <<<<"ome">>, <<"flaky">>>> :>
          [repo_info |-> "repo_200", commit |-> "commit_ok",
           releases |-> "rel_502_html", workflows |-> <<>>] )

WorldDescriptors ==
    { Descriptor(Repo("ome", "a"), [pypi |-> Txt("omero-py")]),
      Descriptor(Repo("ome", "b"), <<>>),
      Descriptor(Repo("ghost", "repo"), <<>>),
      Descriptor(Repo("ome", "flaky"), <<>>),
      Descriptor(Txt("ome"), <<>>) }

SectionNames == <<Txt("Core"), Txt("Tools"), Txt("Formats"), Txt("Web"), Txt("Misc")>>

\* the ids among 1..n, in order, that `section` maps to s
RECURSIVE IdsOf(_, _, _, _)
IdsOf(section, s, i, n) ==
    IF i > n THEN <<>>
    ELSE (IF section[i] = s THEN <<i>> ELSE <<>>) \o IdsOf(section, s, i + 1, n)

\* the configurations of n descriptors in k sections that keep the descriptors in order
Configs(n, k) ==
    { [s \in 1..k |-> [name |-> SectionNames[s], packages |-> IdsOf(section, s, 1, n)]] :
        section \in {f \in [1..n -> 1..k] : \A i \in 1..n, j \in 1..n : i <= j => f[i] <= f[j]} }

\* one descriptor of ome/a against every remote
InitPackage ==
    /\ \E site \in Sites : remote = (<<<<"ome">>, <<"a">>>> :> site)
    /\ session = [headers |-> Headers(Txt("ghp_token"))]
    /\ config = <<[name |-> SectionNames[1], packages |-> <<1>>]>>
    /\ \E extra \in ExtraFields : input = <<Descriptor(Repo("ome", "a"), extra)>>

\* up to MaxPkgs descriptors in up to MaxSections sections against the World
InitDispatch ==
    /\ remote = World
    /\ session = [headers |-> Headers(None)]
    /\ \E n \in 0..MaxPkgs :
          /\ input \in [1..n -> WorldDescriptors]
          /\ \E k \in 1..MaxSections : config \in Configs(n, k)

\* repo fields without exactly one separator: none, two, and the empty string
Malformed == {Txt("ome"), S(<<"ome", "/", "a", "/", "b">>), S(<<>>)}

\* a descriptor with a malformed repo beside one of ome/a, in either order
InitMalformed ==
    /\ remote = World
    /\ session = [headers |-> Headers(None)]
    /\ config = <<[name |-> SectionNames[1], packages |-> <<1, 2>>]>>
    /\ \E repo \in Malformed, extra \in {<<>>, [pypi |-> Txt("omero-py")]} :
          input \in {<<Descriptor(repo, extra), Descriptor(Repo("ome", "a"), <<>>)>>,
                     <<Descriptor(Repo("ome", "a"), <<>>), Descriptor(repo, extra)>>}

Init ==
    /\ InitPackage \/ InitDispatch \/ InitMalformed
    /\ package = input
    /\ all_packages = <<>>
    /\ futures = <<>>
    /\ calls = <<>>
    /\ writes = [id \in DOMAIN input |-> <<>>]
    /\ yielded = <<>>
    /\ main = "flatten"
    /\ raised = None
    /\ generated = <<>>

---------------------------------------------------------------------------
(* process_package (lines 172-201), one step per network round trip *)

\* build_session(): a new session whose headers are a copy of the shared ones
build_session == [headers |-> session.headers]

\* The statements that store into the descriptor are modelled by the assignments
\* package[key] = value they perform, a sequence of <<key, value>>.

\* SplitRepo with the first target mistyped: package["repo"], package["name"] = ...
SplitRepoIntoRepo(pkg) ==
    IF "repo" \notin DOMAIN pkg THEN Raise("KeyError")
    ELSE IF ~IsStr(pkg["repo"]) THEN Raise("AttributeError")
    ELSE LET parts == Split(pkg["repo"], "/")
         IN  IF Len(parts) # 2 THEN Raise("ValueError")
             ELSE Ret(<< <<"repo", parts[1]>>, <<"name", parts[2]>> >>)

\* SplitRepo with the head and the rest taken as by str.partition: nothing raises
SplitRepoPartition(pkg) ==
    IF "repo" \notin DOMAIN pkg THEN Raise("KeyError")
    ELSE IF ~IsStr(pkg["repo"]) THEN Raise("AttributeError")
    ELSE LET parts == Split(pkg["repo"], "/")
         IN  Ret(<< <<"user", parts[1]>>,
                    <<"name", IF Len(parts) >= 2 THEN parts[2] ELSE S(<<>>)>> >>)

\* line 177: package["user"], package["name"] = package["repo"].split("/")
SplitRepo(pkg) ==
    IF "repo" \notin DOMAIN pkg THEN Raise("KeyError")
    ELSE IF ~IsStr(pkg["repo"]) THEN Raise("AttributeError")
    ELSE LET parts == Split(pkg["repo"], "/")
         IN  IF Len(parts) # 2 THEN Raise("ValueError")
             ELSE Ret(<< <<"user", parts[1]>>, <<"name", parts[2]>> >>)

\* StoreRepoInfo storing the record unconditionally and flagging the error besides
StoreRepoInfoAlways(repo_info) ==
    << <<"repo_info", repo_info>> >> \o
    (IF Truthy(repo_info) THEN <<>> ELSE << <<"error", B(TRUE)>> >>)

\* lines 180-183
StoreRepoInfo(repo_info) ==
    IF Truthy(repo_info) THEN << <<"repo_info", repo_info>> >>
    ELSE << <<"error", B(TRUE)>> >>

\* StoreLastCommit without the test for presence
StoreLastCommitAlways(last_commit_info) == << <<"last_commit", last_commit_info>> >>

\* lines 188-189
StoreLastCommit(last_commit_info) ==
    IF Truthy(last_commit_info) THEN << <<"last_commit", last_commit_info>> >> ELSE <<>>

\* lines 194-195
StoreLastRelease(last_release_info) ==
    IF Truthy(last_release_info) THEN << <<"last_release", last_release_info>> >> ELSE <<>>

\* StoreDisabledWorkflows without the test for a non-empty list
StoreDisabledWorkflowsAlways(disabled_workflows) ==
    << <<"disabled_workflows", disabled_workflows>> >>

\* lines 200-201
StoreDisabledWorkflows(disabled_workflows) ==
    IF Truthy(disabled_workflows) THEN << <<"disabled_workflows", disabled_workflows>> >>
    ELSE <<>>

\* AfterRepoInfo giving up on the commit and the release of a repository not found
AfterRepoInfoSkip(repo_info) ==
    IF Truthy(repo_info) THEN "last_commit" ELSE "disabled_workflows"

\* the statement process_package goes on to after a fetch has returned
AfterRepoInfo(repo_info) == "last_commit"
AfterLastCommit(last_commit_info) == "last_release"
AfterLastRelease(last_release_info) == "disabled_workflows"

\* the dict after the assignments, in order
RECURSIVE PutAll(_, _, _)
PutAll(f, assignments, n) ==
    IF n > Len(assignments) THEN f
    ELSE PutAll(Put(f, assignments[n][1], assignments[n][2]), assignments, n + 1)

\* task i performs the assignments on descriptor id
Assign(i, id, assignments) ==
    /\ package' = [package EXCEPT ![id] = PutAll(@, assignments, 1)]
    /\ writes' = [writes EXCEPT ![id] =
                    @ \o [n \in DOMAIN assignments |-> [by |-> i, key |-> assignments[n][1]]]]

\* the frame of a task that has not started
NewFuture(id) ==
    [package |-> id, state |-> "PENDING", exception |-> None, pc |-> "build_session",
     local_session |-> None, page |-> 1, disabled |-> <<>>]

Running == {i \in DOMAIN futures : futures[i].state = "RUNNING"}
Pending == {i \in DOMAIN futures : futures[i].state = "PENDING"}
Finished == {i \in DOMAIN futures : futures[i].state = "FINISHED"}

\* task i ends by raising
Fault(i, exception) ==
    /\ futures' = [futures EXCEPT ![i].state = "FINISHED", ![i].exception = Txt(exception),
                                  ![i].pc = "done"]
    /\ UNCHANGED <<package, writes>>

\* Request going through the module-level session (written 0 in the log)
RequestThroughShared(i, endpoint, page) ==
    calls' = [calls EXCEPT ![i] = Append(@, [endpoint |-> endpoint, page |-> page, session |-> 0])]

\* task i sends a request through its own session
Request(i, endpoint, page) ==
    calls' = [calls EXCEPT ![i] = Append(@, [endpoint |-> endpoint, page |-> page, session |-> i])]

\* Start with a thread for every work item: no test of the size of the pool
StartUnbounded(i) ==
    /\ i \in Pending
    /\ \A j \in Pending : i <= j
    /\ LET id == futures[i].package
           split == SplitRepo(package[id])
       IN  IF Raised(split)
           THEN /\ futures' = [futures EXCEPT ![i].state = "FINISHED",
                                              ![i].exception = Txt(split.raise),
                                              ![i].pc = "done",
                                              ![i].local_session = build_session]
                /\ UNCHANGED <<package, writes>>
           ELSE /\ futures' = [futures EXCEPT ![i].state = "RUNNING",
                                              ![i].pc = "repo_info",
                                              ![i].local_session = build_session]
                /\ Assign(i, id, split.ret)
    /\ UNCHANGED <<remote, session, config, input, all_packages, calls, yielded, main,
                   raised, generated>>

\* a worker thread takes the oldest pending work item and runs lines 176-177
Start(i) ==
    /\ i \in Pending
    /\ \A j \in Pending : i <= j
    /\ Cardinality(Running) < max_workers
    /\ LET id == futures[i].package
           split == SplitRepo(package[id])
       IN  IF Raised(split)
           THEN /\ futures' = [futures EXCEPT ![i].state = "FINISHED",
                                              ![i].exception = Txt(split.raise),
                                              ![i].pc = "done",
                                              ![i].local_session = build_session]
                /\ UNCHANGED <<package, writes>>
           ELSE /\ futures' = [futures EXCEPT ![i].state = "RUNNING",
                                              ![i].pc = "repo_info",
                                              ![i].local_session = build_session]
                /\ Assign(i, id, split.ret)
    /\ UNCHANGED <<remote, session, config, input, all_packages, calls, yielded, main,
                   raised, generated>>

\* lines 179-183
RepoInfo(i) ==
    /\ i \in Running
    /\ futures[i].pc = "repo_info"
    /\ \E id \in {futures[i].package} :
       \E repo_info \in {fetch_repo_info(package[id]["user"], package[id]["name"])} :
           /\ Request(i, "repo_info", 0)
           /\ IF Raised(repo_info)
              THEN Fault(i, repo_info.raise)
              ELSE /\ Assign(i, id, StoreRepoInfo(repo_info.ret))
                   /\ futures' = [futures EXCEPT ![i].pc = AfterRepoInfo(repo_info.ret)]
    /\ UNCHANGED <<remote, session, config, input, all_packages, yielded, main, raised,
                   generated>>

\* lines 185-189
LastCommit(i) ==
    /\ i \in Running
    /\ futures[i].pc = "last_commit"
    /\ \E id \in {futures[i].package} :
       \E last_commit_info \in {fetch_last_commit_info(package[id]["user"], package[id]["name"])} :
           /\ Request(i, "last_commit", 0)
           /\ IF Raised(last_commit_info)
              THEN Fault(i, last_commit_info.raise)
              ELSE /\ Assign(i, id, StoreLastCommit(last_commit_info.ret))
                   /\ futures' = [futures EXCEPT ![i].pc = AfterLastCommit(last_commit_info.ret)]
    /\ UNCHANGED <<remote, session, config, input, all_packages, yielded, main, raised,
                   generated>>

\* lines 191-195
LastRelease(i) ==
    /\ i \in Running
    /\ futures[i].pc = "last_release"
    /\ \E id \in {futures[i].package} :
       \E last_release_info \in {fetch_last_release_info(package[id]["user"], package[id]["name"])} :
           /\ Request(i, "last_release", 0)
           /\ IF Raised(last_release_info)
              THEN Fault(i, last_release_info.raise)
              ELSE /\ Assign(i, id, StoreLastRelease(last_release_info.ret))
                   /\ futures' = [futures EXCEPT ![i].pc = AfterLastRelease(last_release_info.ret)]
    /\ UNCHANGED <<remote, session, config, input, all_packages, yielded, main, raised,
                   generated>>

\* lines 197-201: one page of fetch_disabled_inactive_workflows; after the break,
\* the function returns, the key is stored and the task ends
DisabledWorkflows(i) ==
    /\ i \in Running
    /\ futures[i].pc = "disabled_workflows"
    /\ futures[i].page <= MaxPages + 1      \* the remote holds MaxPages pages at most
    /\ \E it \in {WorkflowsIteration(package[futures[i].package]["user"],
                                      package[futures[i].package]["name"],
                                      futures[i].page, futures[i].disabled)} :
          /\ Request(i, "disabled_workflows", futures[i].page)
          /\ IF Raised(it)
             THEN Fault(i, it.raise)
             ELSE IF it.ret.break
             THEN /\ Assign(i, futures[i].package, StoreDisabledWorkflows(L(it.ret.disabled)))
                  /\ futures' = [futures EXCEPT ![i].state = "FINISHED", ![i].pc = "done",
                                                ![i].page = it.ret.page,
                                                ![i].disabled = it.ret.disabled]
             ELSE /\ futures' = [futures EXCEPT ![i].page = it.ret.page,
                                                ![i].disabled = it.ret.disabled]
                  /\ UNCHANGED <<package, writes>>
    /\ UNCHANGED <<remote, session, config, input, all_packages, yielded, main, raised,
                   generated>>

---------------------------------------------------------------------------
(* The coordinating thread (lines 204-220) *)

\* lines 204-206: all_packages.extend(section["packages"]) for every section
RECURSIVE Flattened(_, _)
Flattened(sections, s) ==
    IF s > Len(sections) THEN <<>>
    ELSE sections[s].packages \o Flattened(sections, s + 1)

Flatten ==
    /\ main = "flatten"
    /\ all_packages' = Flattened(config, 1)
    /\ main' = "submit"
    /\ UNCHANGED <<remote, session, config, input, package, futures, calls, writes, yielded,
                   raised, generated>>

\* Submitted with the loop variable not used: every task gets the first descriptor
SubmittedFirst(n) == all_packages[1]

\* the descriptor the n-th submitted task is given
Submitted(n) == all_packages[n]

\* line 209: one executor.submit of the list comprehension, or its end
Submit ==
    /\ main = "submit"
    /\ IF Len(futures) < Len(all_packages)
       THEN /\ futures' = Append(futures, NewFuture(Submitted(Len(futures) + 1)))
            /\ calls' = Append(calls, <<>>)
            /\ UNCHANGED main
       ELSE /\ main' = "as_completed"
            /\ UNCHANGED <<futures, calls>>
    /\ UNCHANGED <<remote, session, config, input, package, all_packages, writes, yielded,
                   raised, generated>>

\* the futures as_completed may yield next
Completed == Finished \ {yielded[k] : k \in DOMAIN yielded}

\* Result when future.result() is not called: nothing is re-raised
ResultIgnored(future) == None

\* line 212: what future.result() raises on the coordinating thread
Result(future) == future.exception

\* lines 210-212: as_completed yields a finished future and future.result() is called
Collect(i) ==
    /\ main = "as_completed"
    /\ i \in Completed
    /\ yielded' = Append(yielded, i)
    /\ raised' = Result(futures[i])
    /\ main' = IF Truthy(Result(futures[i])) THEN "shutdown" ELSE "as_completed"
    /\ UNCHANGED <<remote, session, config, input, package, all_packages, futures, calls,
                   writes, generated>>

\* line 210: as_completed is exhausted, the for loop ends
Collected ==
    /\ main = "as_completed"
    /\ Len(yielded) = Len(futures)
    /\ main' = "shutdown"
    /\ UNCHANGED <<remote, session, config, input, package, all_packages, futures, calls,
                   writes, yielded, raised, generated>>

\* Joined when the pool is shut down without waiting (shutdown(wait=False))
JoinedWithoutWaiting == TRUE

\* the threads executor.shutdown(wait=True) joins have no work left
Joined == Pending = {} /\ Running = {}

\* line 208: leaving the with block: ThreadPoolExecutor.__exit__ shuts the pool down,
\* waiting for the work items, and an exception in flight goes on propagating
Shutdown ==
    /\ main = "shutdown"
    /\ Joined
    /\ main' = IF Truthy(raised) THEN "failed" ELSE "snapshot"
    /\ UNCHANGED <<remote, session, config, input, package, all_packages, futures, calls,
                   writes, yielded, raised, generated>>

\* datetime.utcnow().isoformat()
Clock == {<<"2024-06-30", "T", "10:00:00">>, <<"2024-06-30", "T", "23:59:59">>}

\* the position at which the task of descriptor id was yielded
YieldedAt(id) ==
    CHOOSE k \in DOMAIN yielded : futures[yielded[k]].package = id

\* Sections with the descriptors of a section in the order their tasks completed
SectionsAsCompleted ==
    [s \in DOMAIN config |->
        [name |-> config[s].name,
         packages |->
            [j \in DOMAIN config[s].packages |->
                LET ids == config[s].packages
                    id == CHOOSE x \in {ids[m] : m \in DOMAIN ids} :
                            Cardinality({y \in {ids[m] : m \in DOMAIN ids} :
                                            YieldedAt(y) < YieldedAt(x)}) = j - 1
                IN  package[id]]]]

\* dump(): the configuration tree with the descriptors as they are now
Sections ==
    [s \in DOMAIN config |->
        [name |-> config[s].name,
         packages |-> [j \in DOMAIN config[s].packages |-> package[config[s].packages[j]]]]]

\* SnapshotPoint with lines 214-220 moved into the with block, before the loop ends
SnapshotInsideLoop == "as_completed"

\* the state of the coordinating thread in which lines 214-220 run
SnapshotPoint == "snapshot"

\* lines 214-220
WriteSnapshot ==
    /\ main = SnapshotPoint
    /\ \E utcnow \in Clock :
          generated' = Append(generated, [generated_at |-> S(utcnow \o <<"Z">>),
                                          sections |-> Sections])
    /\ main' = "done"
    /\ UNCHANGED <<remote, session, config, input, package, all_packages, futures, calls,
                   writes, yielded, raised>>

Next ==
    \/ Flatten
    \/ Submit
    \/ \E i \in DOMAIN futures : Start(i)
    \/ \E i \in DOMAIN futures : RepoInfo(i)
    \/ \E i \in DOMAIN futures : LastCommit(i)
    \/ \E i \in DOMAIN futures : LastRelease(i)
    \/ \E i \in DOMAIN futures : DisabledWorkflows(i)
    \/ \E i \in DOMAIN futures : Collect(i)
    \/ Collected
    \/ Shutdown
    \/ WriteSnapshot

Spec == Init /\ [][Next]_vars

TypeOK ==
    /\ main \in {"flatten", "submit", "as_completed", "shutdown", "snapshot", "failed", "done"}
    /\ Len(generated) <= 1
    /\ \A i \in DOMAIN futures : futures[i].page \in 1..(MaxPages + 1)

---------------------------------------------------------------------------
(* Two runs of the script against the same dashboard.yml and the same remote *)

\* the script is run again once a run has ended with its snapshot written: the
\* module-level statements (lines 18-32, 204) start from dashboard.yml afresh;
\* `generated` keeps the document of the first run
Rerun ==
    /\ main = "done"
    /\ Len(generated) = 1
    /\ package' = input
    /\ all_packages' = <<>>
    /\ futures' = <<>>
    /\ calls' = <<>>
    /\ writes' = [id \in DOMAIN input |-> <<>>]
    /\ yielded' = <<>>
    /\ main' = "flatten"
    /\ raised' = None
    /\ UNCHANGED <<remote, session, config, input, generated>>

InitTwice ==
    /\ InitDispatch
    /\ package = input
    /\ all_packages = <<>>
    /\ futures = <<>>
    /\ calls = <<>>
    /\ writes = [id \in DOMAIN input |-> <<>>]
    /\ yielded = <<>>
    /\ main = "flatten"
    /\ raised = None
    /\ generated = <<>>

NextTwice ==
    \/ Flatten
    \/ Submit
    \/ \E i \in DOMAIN futures : Start(i)
    \/ \E i \in DOMAIN futures : RepoInfo(i)
    \/ \E i \in DOMAIN futures : LastCommit(i)
    \/ \E i \in DOMAIN futures : LastRelease(i)
    \/ \E i \in DOMAIN futures : DisabledWorkflows(i)
    \/ \E i \in DOMAIN futures : Collect(i)
    \/ Collected
    \/ Shutdown
    \/ WriteSnapshot
    \/ Rerun

SpecTwice == InitTwice /\ [][NextTwice]_vars

---------------------------------------------------------------------------
(* Runs under fair scheduling *)

Paged == <<<<"ome">>, <<"paged">>>>

\* ome/paged, with every workflow listing and with all or none of the optional
\* data, alone or beside a repository without optional data or a faulting one
InitFair ==
    /\ \E listing \in Listings, present \in BOOLEAN :
          remote = World @@
              (Paged :> [repo_info |-> IF present THEN "repo_200" ELSE "repo_404",
                         commit |-> IF present THEN "commit_ok" ELSE "commit_empty_repo",
                         releases |-> IF present THEN "rel_200_one" ELSE "rel_404",
                         workflows |-> listing])
    /\ session = [headers |-> Headers(None)]
    /\ \E others \in {<<>>, <<Descriptor(Repo("ome", "b"), <<>>)>>,
                       <<Descriptor(Repo("ome", "flaky"), <<>>)>>} :
          input = <<Descriptor(Repo("ome", "paged"), <<>>)>> \o others
    /\ config = <<[name |-> SectionNames[1], packages |-> [k \in DOMAIN input |-> k]]>>
    /\ package = input
    /\ all_packages = <<>>
    /\ futures = <<>>
    /\ calls = <<>>
    /\ writes = [id \in DOMAIN input |-> <<>>]
    /\ yielded = <<>>
    /\ main = "flatten"
    /\ raised = None
    /\ generated = <<>>

\* a thread that can take a step is eventually scheduled, and a request sent is
\* eventually answered: the run does not stop while a step is possible
SpecFair == InitFair /\ [][Next]_vars /\ WF_vars(Next)

---------------------------------------------------------------------------
(* Runs with more descriptors than the pool has threads *)

\* max_workers + 1 up to max_workers + MaxWaiting descriptors of the World in one
\* section: ome/a and ome/b
InitPool ==
    /\ remote = World
    /\ session = [headers |-> Headers(None)]
    /\ \E n \in (max_workers + 1)..(max_workers + MaxWaiting) :
          /\ input = [id \in 1..n |-> IF id % 2 = 1 THEN Descriptor(Repo("ome", "a"), <<>>)
                                                   ELSE Descriptor(Repo("ome", "b"), <<>>)]
          /\ config = <<[name |-> SectionNames[1], packages |-> [id \in 1..n |-> id]]>>
    /\ package = input
    /\ all_packages = <<>>
    /\ futures = <<>>
    /\ calls = <<>>
    /\ writes = [id \in DOMAIN input |-> <<>>]
    /\ yielded = <<>>
    /\ main = "flatten"
    /\ raised = None
    /\ generated = <<>>

SpecPool == InitPool /\ [][Next]_vars

---------------------------------------------------------------------------
(* Vocabulary of the properties *)

\* task i raised / task i returned normally
Faulted(i) == Truthy(futures[i].exception)
Returned(i) == futures[i].state = "FINISHED" /\ ~Faulted(i)

\* the descriptor of task i, now and as loaded
Desc(i) == package[futures[i].package]
In(i) == input[futures[i].package]

\* the n-th fetch of task i has returned (the task got past it without raising)
FetchReturned(i, n) == Len(calls[i]) >= n /\ ~(Faulted(i) /\ Len(calls[i]) = n)

\* what the remote holds for the repository of task i (once user and name are set)
SiteOf(i) == Site(Desc(i)["user"], Desc(i)["name"])
RepoStatus(i) == Response(SiteOf(i).repo_info).status

\* the response task i got to its n-th request
ResponseTo(i, n) ==
    LET c == calls[i][n]
    IN  CASE c.endpoint = "repo_info" -> Response(SiteOf(i).repo_info)
          [] c.endpoint = "last_commit" -> Response(SiteOf(i).commit)
          [] c.endpoint = "last_release" -> Response(SiteOf(i).releases)
          [] c.endpoint = "disabled_workflows" ->
                GetWorkflows(Desc(i)["user"], Desc(i)["name"], c.page)

\* the remote's answers, read off the remote rather than off the fetch functions
CommitResolves(i) == SiteOf(i).commit \in {"commit_ok", "commit_unlinked"}
ReleaseExists(i) == SiteOf(i).releases \in {"rel_200_one", "rel_200_draft"}
ReleaseAbsent(i) == SiteOf(i).releases \in {"rel_404", "rel_200_empty"}

\* the keys task i has assigned on its descriptor
Assigned(i) == {writes[futures[i].package][n].key : n \in DOMAIN writes[futures[i].package]}

\* the workflow entries of the pages task i has scanned (requested and got listed)
ScannedWorkflows(i) ==
    UNION { LET entries == Get(ResponseTo(i, n).body, "workflows").list
            IN  {entries[m] : m \in DOMAIN entries} :
            n \in {k \in DOMAIN calls[i] : /\ calls[i][k].endpoint = "disabled_workflows"
                                           /\ ResponseTo(i, k).status = 200} }

InactivityDisabled(workflow) ==
    Get(workflow, "state") \in {Txt("disabled_inactivity"), Txt("Disabled_Inactivity"),
                                Txt("DISABLED_INACTIVITY")}
HasLabel(workflow) ==
    Truthy(Get(workflow, "name")) \/ Truthy(Get(workflow, "path")) \/ Truthy(Get(workflow, "id"))

EnrichmentKeys == {"user", "name", "repo_info", "error", "last_commit", "last_release",
                   "disabled_workflows"}

\* the fetch requested n-th by process_package
FetchOrder(n) ==
    IF n <= 3 THEN <<"repo_info", "last_commit", "last_release">>[n] ELSE "disabled_workflows"

---------------------------------------------------------------------------
(* C1: when a process_package task has raised, generated.yml is never written:   *)
(* no state has both a faulted task and a written snapshot, the coordinating     *)
(* thread cannot reach the snapshot, the exception it carries is the one of a    *)
(* faulted task it was yielded.                                                  *)
C1_NoSnapshotWhenTaskFaults ==
    (\E i \in DOMAIN futures : Faulted(i)) =>
        /\ generated = <<>>
        /\ main \notin {"snapshot", "done"}
        /\ Truthy(raised) =>
              \E k \in DOMAIN yielded : Faulted(yielded[k]) /\ raised = futures[yielded[k]].exception
        /\ main = "failed" => Truthy(raised)

\* a run that failed on a faulted task while another task had returned normally
C1_Witness ==
    /\ main = "failed"
    /\ generated = <<>>
    /\ \E i, j \in DOMAIN futures : Faulted(i) /\ Returned(j) /\ raised = futures[i].exception

(* C2: the snapshot is written at most once, and only when every descriptor has  *)
(* been submitted and every task has finished; the document written equals the   *)
(* configuration tree ever after, so no enrichment was still in progress.        *)
C2_SnapshotOnceAfterAllTasks ==
    /\ Len(generated) <= 1
    /\ (main = "snapshot" \/ generated # <<>>) =>
          /\ Len(futures) = Len(all_packages)
          /\ Len(all_packages) = Len(input)
          /\ \A i \in DOMAIN futures : futures[i].state = "FINISHED"
    /\ generated # <<>> => generated[1].sections = Sections

\* a snapshot written after two tasks
C2_Witness ==
    /\ Len(generated) = 1
    /\ main = "done"
    /\ Len(futures) = 2
    /\ \A i \in DOMAIN futures : Len(calls[i]) >= 4

(* C3: no descriptor is given to two tasks, once the submissions are over every  *)
(* descriptor has exactly one task, and every assignment to a descriptor is made *)
(* by its own task, at most once per key.                                        *)
C3_OneTaskPerDescriptor ==
    /\ \A i, j \in DOMAIN futures : i # j => futures[i].package # futures[j].package
    /\ main \notin {"flatten", "submit"} =>
          \A id \in DOMAIN input :
              Cardinality({i \in DOMAIN futures : futures[i].package = id}) = 1
    /\ \A id \in DOMAIN writes : \A m, n \in DOMAIN writes[id] :
          /\ futures[writes[id][m].by].package = id
          /\ m # n => writes[id][m].key # writes[id][n].key

\* two descriptors, each fully enriched by its own task
C3_Witness ==
    /\ main = "done"
    /\ Len(futures) = 2
    /\ \E id \in DOMAIN writes : Len(writes[id]) = 6
    /\ \A id \in DOMAIN writes : Len(writes[id]) >= 3

(* C4: once process_package has returned on a descriptor loaded without the keys *)
(* error and repo_info, error is there (and true) exactly when the repository    *)
(* request was answered 404 and repo_info is there exactly when it was not; the  *)
(* descriptor never has both.                                                    *)
C4_ErrorIffRepoNotFound ==
    \A i \in DOMAIN futures :
        (Returned(i) /\ "error" \notin DOMAIN In(i) /\ "repo_info" \notin DOMAIN In(i)) =>
            /\ "error" \in DOMAIN Desc(i) <=> RepoStatus(i) = 404
            /\ "error" \in DOMAIN Desc(i) => Desc(i)["error"] = B(TRUE)
            /\ "repo_info" \in DOMAIN Desc(i) <=> RepoStatus(i) # 404
            /\ ~("error" \in DOMAIN Desc(i) /\ "repo_info" \in DOMAIN Desc(i))

\* two returned tasks: one answered 404 (error set), one answered 500 (repo_info set)
C4_Witness ==
    \E i, j \in DOMAIN futures :
        /\ Returned(i) /\ RepoStatus(i) = 404
        /\ "error" \in DOMAIN Desc(i) /\ "repo_info" \notin DOMAIN Desc(i)
        /\ Returned(j) /\ RepoStatus(j) = 500
        /\ "repo_info" \in DOMAIN Desc(j) /\ "error" \notin DOMAIN Desc(j)

(* C5: a commit, release or workflows request answered with a failure status    *)
(* other than 404 does not make the task raise, and leaves last_commit or        *)
(* last_release (when the descriptor was loaded without it) out of the           *)
(* descriptor.                                                                   *)
C5_FailedCallYieldsAbsence ==
    \A i \in DOMAIN futures : \A n \in DOMAIN calls[i] :
        LET endpoint == calls[i][n].endpoint
            status == ResponseTo(i, n).status
        IN  (endpoint \in {"last_commit", "last_release", "disabled_workflows"}
                /\ status >= 400 /\ status # 404) =>
                /\ ~(Faulted(i) /\ n = Len(calls[i]))
                /\ (endpoint # "disabled_workflows" /\ endpoint \notin DOMAIN In(i)) =>
                      endpoint \notin DOMAIN Desc(i)

(* C6: the requests of a task are the repository, the commit, the release and   *)
(* then the workflow pages, in that order; what a running task requests next     *)
(* depends only on how many requests it has made, not on what they returned; a   *)
(* task that returned made all four; and after a 404 on the repository the       *)
(* descriptor has error true and last_commit, last_release and                   *)
(* disabled_workflows exactly as the remote's commit, releases and workflows     *)
(* decide.                                                                       *)
C6_AllFourFetchesInOrder ==
    \A i \in DOMAIN futures :
        /\ \A n \in DOMAIN calls[i] : calls[i][n].endpoint = FetchOrder(n)
        /\ futures[i].state = "RUNNING" => futures[i].pc = FetchOrder(Len(calls[i]) + 1)
        /\ Returned(i) => Len(calls[i]) >= 4
        /\ (Returned(i) /\ RepoStatus(i) = 404 /\ DOMAIN In(i) \cap EnrichmentKeys = {}) =>
              /\ "error" \in DOMAIN Desc(i) /\ Desc(i)["error"] = B(TRUE)
              /\ "last_commit" \in DOMAIN Desc(i) <=> CommitResolves(i)
              /\ "last_release" \in DOMAIN Desc(i) <=> ReleaseExists(i)
              /\ "disabled_workflows" \in DOMAIN Desc(i) <=>
                    \E w \in ScannedWorkflows(i) : InactivityDisabled(w) /\ HasLabel(w)

\* a repository answered 404 whose commit, release and workflows were still stored
C6_Witness ==
    \E i \in DOMAIN futures :
        /\ Returned(i) /\ RepoStatus(i) = 404
        /\ Desc(i)["error"] = B(TRUE)
        /\ {"last_commit", "last_release", "disabled_workflows"} \subseteq Assigned(i)

(* C7: process_package never stores a null last_commit or last_release, and     *)
(* when the commit (or release) fetch returned absent it makes no assignment to  *)
(* the key, so a descriptor loaded without the key is left without it.           *)
C7_AbsentFetchOmitsKey ==
    \A i \in DOMAIN futures :
        /\ \A key \in {"last_commit", "last_release"} \cap Assigned(i) :
              IsDict(Desc(i)[key])
        /\ (FetchReturned(i, 2) /\ ~CommitResolves(i)) =>
              /\ "last_commit" \notin Assigned(i)
              /\ "last_commit" \notin DOMAIN In(i) => "last_commit" \notin DOMAIN Desc(i)
        /\ (FetchReturned(i, 3) /\ ReleaseAbsent(i)) =>
              /\ "last_release" \notin Assigned(i)
              /\ "last_release" \notin DOMAIN In(i) => "last_release" \notin DOMAIN Desc(i)

\* a returned task whose branch did not resolve and whose release list was empty
C7_Witness ==
    \E i \in DOMAIN futures :
        /\ Returned(i)
        /\ SiteOf(i).commit = "commit_empty_repo" /\ SiteOf(i).releases = "rel_200_empty"
        /\ "last_commit" \notin DOMAIN Desc(i) /\ "last_release" \notin DOMAIN Desc(i)

(* C8, as stated: once process_package has returned, disabled_workflows is on   *)
(* the descriptor exactly when a workflow of the scanned pages was in the        *)
(* inactivity-disabled state.                                                    *)
C8_KeyIffStateMatched ==
    \A i \in DOMAIN futures :
        (Returned(i) /\ "disabled_workflows" \notin DOMAIN In(i)) =>
            ("disabled_workflows" \in DOMAIN Desc(i) <=>
                \E w \in ScannedWorkflows(i) : InactivityDisabled(w))

(* C8, amended: once process_package has returned, disabled_workflows is on the *)
(* descriptor exactly when a workflow of the scanned pages was in the            *)
(* inactivity-disabled state and had a label (a non-empty name or path, or a     *)
(* non-zero id); the value stored is never an empty sequence.                    *)
C8_KeyIffLabelledMatch ==
    \A i \in DOMAIN futures :
        (Returned(i) /\ "disabled_workflows" \notin DOMAIN In(i)) =>
            /\ "disabled_workflows" \in DOMAIN Desc(i) <=>
                  \E w \in ScannedWorkflows(i) : InactivityDisabled(w) /\ HasLabel(w)
            /\ "disabled_workflows" \in DOMAIN Desc(i) =>
                  /\ IsList(Desc(i)["disabled_workflows"])
                  /\ Desc(i)["disabled_workflows"].list # <<>>

\* a returned task that scanned inactivity-disabled workflows, none with a label
C8_Witness ==
    \E i \in DOMAIN futures :
        /\ Returned(i)
        /\ \E w \in ScannedWorkflows(i) : InactivityDisabled(w)
        /\ \A w \in ScannedWorkflows(i) : InactivityDisabled(w) => ~HasLabel(w)
        /\ "disabled_workflows" \notin DOMAIN Desc(i)

(* C9, as stated: every field of a descriptor as loaded is still on it with its *)
(* original value.                                                               *)
C9_InputFieldsKeepValue ==
    \A id \in DOMAIN input : \A key \in DOMAIN input[id] :
        key \in DOMAIN package[id] /\ package[id][key] = input[id][key]

(* C9, amended: no field of a descriptor as loaded is ever removed, repo keeps  *)
(* its value, the only keys process_package assigns are user, name, repo_info,   *)
(* error, last_commit, last_release and disabled_workflows, and every loaded     *)
(* field it has not assigned keeps its value (a loaded field under one of those  *)
(* seven keys is overwritten when the key is stored); the same holds of the      *)
(* descriptors in the written snapshot.                                          *)
C9_AdditiveOutsideEnrichmentKeys ==
    /\ \A id \in DOMAIN input :
          LET assigned == {writes[id][n].key : n \in DOMAIN writes[id]}
          IN  /\ DOMAIN input[id] \subseteq DOMAIN package[id]
              /\ assigned \subseteq EnrichmentKeys
              /\ \A key \in DOMAIN input[id] \ assigned : package[id][key] = input[id][key]
              /\ "repo" \in DOMAIN input[id] => package[id]["repo"] = input[id]["repo"]
    /\ generated # <<>> =>
          \A s \in DOMAIN config : \A j \in DOMAIN config[s].packages :
              LET id == config[s].packages[j]
                  out == generated[1].sections[s].packages[j]
              IN  \A key \in DOMAIN input[id] \ EnrichmentKeys :
                      key \in DOMAIN out /\ out[key] = input[id][key]

\* a written descriptor that kept pypi and had its loaded name overwritten
C9_Witness ==
    /\ generated # <<>>
    /\ \E i \in DOMAIN futures :
          /\ Returned(i)
          /\ {"name", "pypi"} \subseteq DOMAIN In(i)
          /\ Desc(i)["pypi"] = In(i)["pypi"]
          /\ Desc(i)["name"] # In(i)["name"]

(* C10: in the written snapshot the sections are those of the configuration in  *)
(* the same order, and the descriptors of each section are the loaded ones in    *)
(* the same order, whatever the order in which the tasks completed.              *)
C10_SnapshotKeepsInputOrder ==
    generated # <<>> =>
        LET out == generated[1].sections
        IN  /\ Len(out) = Len(config)
            /\ \A s \in DOMAIN out :
                  /\ out[s].name = SectionNames[s]
                  /\ Len(out[s].packages) = Len(config[s].packages)
            /\ Flattened(out, 1) = [id \in DOMAIN input |-> package[id]]
            /\ \A id \in DOMAIN input : Flattened(out, 1)[id]["repo"] = input[id]["repo"]

\* two different repositories of one section, written after completing in reverse
C10_Witness ==
    /\ generated # <<>>
    /\ yielded = <<2, 1>>
    /\ \E s \in DOMAIN config : config[s].packages = <<1, 2>>
    /\ input[1]["repo"] # input[2]["repo"]

(* C11: when the script has been run twice on the same dashboard.yml against the *)
(* same remote, the sections of the two documents written are equal (the         *)
(* documents differ at most in generated_at), whatever the order in which the    *)
(* tasks of either run were started, stepped and collected.                      *)
C11_TwoRunsSameSections ==
    Len(generated) = 2 => generated[1].sections = generated[2].sections

\* two documents written by two runs, stamped differently, the second run having
\* collected its two tasks in reverse, with an enriched descriptor
C11_Witness ==
    /\ Len(generated) = 2
    /\ generated[1].generated_at # generated[2].generated_at
    /\ yielded = <<2, 1>>
    /\ \E id \in DOMAIN input :
          /\ "disabled_workflows" \in DOMAIN package[id]
          /\ package[id] # input[id]

\* the number of separators in a repo field
Separators(repo) == Cardinality({k \in DOMAIN repo.str : repo.str[k] = "/"})

\* descriptor id was loaded with a repo string that is not owner/name
MalformedRepo(id) ==
    /\ "repo" \in DOMAIN input[id]
    /\ IsStr(input[id]["repo"])
    /\ Separators(input[id]["repo"]) # 1

(* C12: a task whose descriptor was loaded with a repo that has not exactly one  *)
(* separator never runs past line 177: it sends no request and its descriptor    *)
(* stays as loaded, with no assignment made to it; once finished it has raised   *)
(* ValueError (it did not return, and error was not set); and a run whose         *)
(* configuration has such a descriptor never reaches the snapshot.               *)
C12_MalformedRepoFaultsBeforeFetch ==
    /\ \A i \in DOMAIN futures :
          MalformedRepo(futures[i].package) =>
              /\ futures[i].state # "RUNNING"
              /\ calls[i] = <<>>
              /\ writes[futures[i].package] = <<>>
              /\ Desc(i) = In(i)
              /\ futures[i].state = "FINISHED" => futures[i].exception = Txt("ValueError")
    /\ (\E id \in DOMAIN input : MalformedRepo(id)) =>
          /\ generated = <<>>
          /\ main \notin {"snapshot", "done"}

\* a run that failed on a repo with two separators after the task of the other
\* descriptor had returned with its enrichment
C12_Witness ==
    /\ main = "failed"
    /\ raised = Txt("ValueError")
    /\ \E i, j \in DOMAIN futures :
          /\ MalformedRepo(futures[i].package) /\ Separators(In(i)["repo"]) = 2
          /\ Faulted(i) /\ calls[i] = <<>>
          /\ Returned(j) /\ "repo_info" \in DOMAIN Desc(j)

\* the run has ended with one document written, every descriptor processed
CompleteSnapshot ==
    /\ main = "done"
    /\ Len(generated) = 1
    /\ Len(futures) = Len(input)
    /\ \A i \in DOMAIN futures : Returned(i) /\ Len(calls[i]) >= 4
    /\ generated[1].sections = Sections

(* C13: under fair scheduling, a run in which no task raises reaches, and stays  *)
(* in, the state where the coordinating thread is done, exactly one document has *)
(* been written and every descriptor has been processed by a task that returned  *)
(* after its four fetches; absent optional data does not prevent it.             *)
C13_FaultlessRunWritesSnapshot ==
    <>[]((\E i \in DOMAIN futures : Faulted(i)) \/ CompleteSnapshot)

\* a complete snapshot after one task paged past two full pages and found nothing
\* and the other task found no commit, no release and no workflows
C13_Witness ==
    /\ CompleteSnapshot
    /\ \E i, j \in DOMAIN futures :
          /\ futures[i].page > 2
          /\ DOMAIN Desc(i) = {"repo", "user", "name", "error"}
          /\ DOMAIN Desc(j) = {"repo", "user", "name", "repo_info"}

(* C14: once the repository request of a task has been answered with a status  *)
(* that is neither 2xx nor 404, its descriptor (loaded without error and          *)
(* repo_info) has error true and no repo_info.                                   *)
C14_RepoInfoFailureSetsError ==
    \A i \in DOMAIN futures :
        (/\ Len(calls[i]) >= 1
         /\ RepoStatus(i) \notin 200..299
         /\ RepoStatus(i) # 404
         /\ "error" \notin DOMAIN In(i) /\ "repo_info" \notin DOMAIN In(i)) =>
            /\ "error" \in DOMAIN Desc(i) /\ Desc(i)["error"] = B(TRUE)
            /\ "repo_info" \notin DOMAIN Desc(i)

(* C15: at every moment at most 4 tasks are running (started and not finished), *)
(* also when more than 4 descriptors are configured and some are still waiting.  *)
C15_AtMostFourRunning ==
    Cardinality(Running) <= 4

\* four tasks running, the fifth among them after an earlier one has finished
C15_Witness ==
    /\ Cardinality(Running) = 4
    /\ 5 \in Running
    /\ Finished # {}

\* the workflow requests of task i, in order
IsWorkflowsCall(c) == c.endpoint = "disabled_workflows"
WorkflowCalls(i) == SelectSeq(calls[i], IsWorkflowsCall)

\* the entries the remote lists on page k of the repository of task i (none when
\* the request fails), and whether the page is a full one
PageEntries(i, k) ==
    LET resp == GetWorkflows(Desc(i)["user"], Desc(i)["name"], k)
    IN  IF resp.status = 200 THEN Get(resp.body, "workflows").list ELSE <<>>
FullListing(i, k) == Len(PageEntries(i, k)) = 100

\* the labels of the labelled inactivity-disabled entries of a page, in page order,
\* and those of pages 1..k, in page order
IsLabelledMatch(w) == InactivityDisabled(w) /\ HasLabel(w)
LabelsOf(entries) ==
    LET matches == SelectSeq(entries, IsLabelledMatch)
    IN  [n \in DOMAIN matches |-> Label(matches[n])]
RECURSIVE LabelsUpTo(_, _)
LabelsUpTo(i, k) ==
    IF k = 0 THEN <<>> ELSE LabelsUpTo(i, k - 1) \o LabelsOf(PageEntries(i, k))

(* C16: the workflow requests of a task are for pages 1, 2, ... m in order, each *)
(* once; every page before the last one requested was a full listing of 100      *)
(* entries; a task goes on to another page only after a full one, so a task that *)
(* returned stopped at the first page that was not a full listing (fewer than    *)
(* 100 entries, or a failure status such as 403 or 404); and the list collected  *)
(* is the labels of the matching workflows of pages 1..m, page after page and in *)
(* the order of each page, which is what is stored as disabled_workflows.        *)
C16_PagesInOrderAndConcatenated ==
    \A i \in DOMAIN futures :
        LET m == Len(WorkflowCalls(i))
        IN  /\ \A k \in 1..m : WorkflowCalls(i)[k].page = k
            /\ \A k \in 1..(m - 1) : FullListing(i, k)
            /\ (m >= 1 /\ futures[i].state = "RUNNING") =>
                  FullListing(i, m) /\ futures[i].page = m + 1
            /\ Returned(i) => m >= 1 /\ ~FullListing(i, m)
            /\ futures[i].disabled = (IF m = 0 THEN <<>> ELSE LabelsUpTo(i, m))
            /\ (Returned(i) /\ futures[i].disabled # <<>>) =>
                  Desc(i)["disabled_workflows"] = L(futures[i].disabled)

\* a returned task that asked for two pages, a full one and a short one, and
\* stored the match of the first page before the three of the second
C16_Witness ==
    \E i \in DOMAIN futures :
        /\ Returned(i)
        /\ Len(WorkflowCalls(i)) = 2
        /\ Len(PageEntries(i, 2)) \in 1..99
        /\ Len(LabelsOf(PageEntries(i, 1))) = 1
        /\ Len(Desc(i)["disabled_workflows"].list) = 4
        /\ Desc(i)["disabled_workflows"].list[1] = Txt("Stale")
        /\ Desc(i)["disabled_workflows"].list[2] = Txt("Nightly")

\* the three ways the answer to the request of page k ends the loop
ExitForbidden(i, k) == ResponseTo(i, 3 + k).status \in {403, 404}
ExitUnsuccessful(i, k) ==
    ResponseTo(i, 3 + k).status >= 400 /\ ResponseTo(i, 3 + k).status \notin {403, 404}
ExitShortPage(i, k) == ResponseTo(i, 3 + k).status = 200 /\ Len(PageEntries(i, k)) < 100

(* C17: the answer to a workflow request ends the loop exactly when it is 403 or *)
(* 404, or another failure status, or a listing of fewer than 100 entries; after *)
(* any other answer the task asks for the next page.  On each of the three exits *)
(* the task has not raised: it returned, with the labels of the pages scanned    *)
(* before (and those of the short page) collected and, when there are any,       *)
(* stored as disabled_workflows; a failure at page k > 1 loses none of them.     *)
C17_ThreeExitsKeepLabels ==
    \A i \in DOMAIN futures : \A k \in 1..Len(WorkflowCalls(i)) :
        LET last == k = Len(WorkflowCalls(i))
            failed == ExitForbidden(i, k) \/ ExitUnsuccessful(i, k)
        IN  IF failed \/ ExitShortPage(i, k)
            THEN /\ last /\ Returned(i)
                 /\ failed => futures[i].disabled = LabelsUpTo(i, k - 1)
                 /\ ExitShortPage(i, k) => futures[i].disabled = LabelsUpTo(i, k)
                 /\ futures[i].disabled # <<>> =>
                       Desc(i)["disabled_workflows"] = L(futures[i].disabled)
            ELSE /\ ~Faulted(i)
                 /\ last => futures[i].state = "RUNNING" /\ futures[i].page = k + 1

\* a returned task whose second page failed with 500 and which stored the label of
\* the first page
C17_Witness ==
    \E i \in DOMAIN futures :
        /\ Returned(i)
        /\ Len(WorkflowCalls(i)) = 2
        /\ ExitUnsuccessful(i, 2)
        /\ Desc(i)["disabled_workflows"] = L(<<Txt("Stale")>>)

\* the entries of pages 1..k of the repository of task i, in order
RECURSIVE EntriesUpTo(_, _)
EntriesUpTo(i, k) ==
    IF k = 0 THEN <<>> ELSE EntriesUpTo(i, k - 1) \o PageEntries(i, k)

\* the label the preference order gives a workflow, None when it has none; an id
\* counts when IdUsable says so
NonEmpty(v) == IsStr(v) /\ v.str # <<>>
IdPresent(id) == id # None
IdNonZero(id) == id # None /\ id # I(0)
PreferredLabel(w, IdUsable(_)) ==
    IF NonEmpty(Get(w, "name")) THEN Get(w, "name")
    ELSE IF NonEmpty(Get(w, "path")) THEN Get(w, "path")
    ELSE IF IdUsable(Get(w, "id")) THEN S(<<ToString(Get(w, "id").int)>>)
    ELSE None

\* the labels of the inactivity-disabled entries that have one, in order
IsSome(v) == v # None
ExpectedLabels(entries, IdUsable(_)) ==
    SelectSeq([n \in DOMAIN entries |->
                  IF InactivityDisabled(entries[n]) THEN PreferredLabel(entries[n], IdUsable)
                  ELSE None],
              IsSome)

(* C18, as stated: the list a task has collected is, for the scanned workflows  *)
(* in the inactivity-disabled state (in any letter case) and in order, the name  *)
(* if non-empty, else the path if non-empty, else the id as a string if present, *)
(* the workflow being skipped when it has none of the three; no workflow in      *)
(* another state contributes.                                                    *)
C18_LabelNamePathIdPresent ==
    \A i \in DOMAIN futures :
        Len(WorkflowCalls(i)) >= 1 =>
            futures[i].disabled =
                ExpectedLabels(EntriesUpTo(i, Len(WorkflowCalls(i))), IdPresent)

(* C18, amended: as stated, except that the id gives a label only when it is     *)
(* present and not 0: a workflow without name and path whose id is 0 is skipped. *)
C18_LabelNamePathNonZeroId ==
    \A i \in DOMAIN futures :
        Len(WorkflowCalls(i)) >= 1 =>
            futures[i].disabled =
                ExpectedLabels(EntriesUpTo(i, Len(WorkflowCalls(i))), IdNonZero)

\* a returned task that scanned a page with a named match, a match with a path
\* only, a match with an id only, a match with nothing and a manually disabled
\* workflow, and stored the name, the path and the id
C18_Witness ==
    \E i \in DOMAIN futures :
        /\ Returned(i)
        /\ PageEntries(i, 1) = MixedWorkflows
        /\ Desc(i)["disabled_workflows"] =
              L(<<Txt("Nightly"), Txt(".github/workflows/docs.yml"), Txt("4")>>)

(* C19: every request of a task is sent through the session of that task, which *)
(* build_session made when the task started, with headers equal to those of the  *)
(* module-level session; no request goes through the module-level session; and   *)
(* no step changes the module-level session.                                     *)
C19_OwnSessionPerTask ==
    /\ [](\A i \in DOMAIN futures :
            /\ \A n \in DOMAIN calls[i] : calls[i][n].session = i
            /\ futures[i].state # "PENDING" =>
                  futures[i].local_session = [headers |-> session.headers]
            /\ calls[i] # <<>> => futures[i].local_session # None)
    /\ [][session' = session]_vars

\* two tasks, both having sent requests through their own sessions
C19_Witness ==
    \E i, j \in DOMAIN futures :
        /\ i # j
        /\ Len(calls[i]) >= 4 /\ Len(calls[j]) >= 4
        /\ \A n \in DOMAIN calls[i] : calls[i][n].session = i
        /\ \A n \in DOMAIN calls[j] : calls[j][n].session = j
        /\ futures[i].local_session = futures[j].local_session

(* C20: when the exception of a faulted task has left the with block (the run   *)
(* has failed), every descriptor had been submitted and every task has finished: *)
(* none is left pending or running, none was cancelled; each task other than the *)
(* faulted ones returned after its four fetches with its assignments made on its *)
(* descriptor; and only the faulted task that was observed had been collected    *)
(* last.                                                                         *)
C20_NoCancellationOnFault ==
    main = "failed" =>
        /\ Len(futures) = Len(all_packages)
        /\ \A i \in DOMAIN futures :
              /\ futures[i].state = "FINISHED"
              /\ ~Faulted(i) =>
                    /\ Len(calls[i]) >= 4
                    /\ {"user", "name"} \subseteq Assigned(i)
                    /\ Assigned(i) \cap {"repo_info", "error"} # {}
                    /\ Desc(i) # In(i)
        /\ yielded # <<>> /\ Faulted(yielded[Len(yielded)])

\* a failed run in which the only future collected was the faulted one, and the
\* other task, never collected, has run to its end and enriched its descriptor
C20_Witness ==
    /\ main = "failed"
    /\ Len(yielded) = 1
    /\ \E j \in DOMAIN futures :
          /\ j # yielded[1]
          /\ Returned(j)
          /\ Len(writes[futures[j].package]) = 6

=============================================================================
